---- MODULE Spec2Model ----
(***************************************************************************)
(* Model of src/app.py: the Flask front door (ask_agent), the startup      *)
(* initialisation of agent_executor, and the tool get_farm_data_by_device. *)
(* Python values that come out of a JSON parser are modelled as tagged     *)
(* records; json.dumps is modelled as the text it produces.                *)
(***************************************************************************)
EXTENDS Integers, Sequences, FiniteSets, TLC

VARIABLES
    agent_executor,  \* the module-level agent_executor (lines 112-130)
    started,         \* the module has been imported: the service accepts requests
    libs,            \* the builds of requests and Flask the process runs on
    now,             \* the wall-clock time datetime.now() formats (line 147)
    reqs,            \* the POST /ask requests: their bodies, progress and responses
    tool             \* one invocation of get_farm_data_by_device on its own

vars == <<agent_executor, started, libs, now, reqs, tool>>

-----------------------------------------------------------------------------
(* Bounds of the model *)

MaxDeviceId == 2
MaxRequests == 2
MaxToolCalls == 1

-----------------------------------------------------------------------------
(* Python / JSON values: one record shape for every value.                 *)
(*   t     : "null" | "num" | "str" | "list" | "obj"                       *)
(*   n     : the integer of a "num"                                        *)
(*   s     : the text of a "str"                                           *)
(*   keys  : the keys of an "obj", in insertion order                      *)
(*   items : the elements of a "list", or the values of an "obj"           *)

JNull == [t |-> "null", n |-> 0, s |-> "", keys |-> <<>>, items |-> <<>>]
JNum(i) == [t |-> "num", n |-> i, s |-> "", keys |-> <<>>, items |-> <<>>]
JStr(x) == [t |-> "str", n |-> 0, s |-> x, keys |-> <<>>, items |-> <<>>]
JList(xs) == [t |-> "list", n |-> 0, s |-> "", keys |-> <<>>, items |-> xs]
JObj(ks, xs) == [t |-> "obj", n |-> 0, s |-> "", keys |-> ks, items |-> xs]

(* Python truth value of a parsed JSON value: `not x` is ~Truthy(x). *)
Truthy(v) ==
    CASE v.t = "null" -> FALSE
      [] v.t = "num"  -> v.n # 0
      [] v.t = "str"  -> v.s # ""
      [] v.t = "list" -> v.items # <<>>
      [] v.t = "obj"  -> v.keys # <<>>

(* dict.get(key, default) on an "obj" value. *)
DictGet(d, key, default) ==
    IF \E i \in 1..Len(d.keys) : d.keys[i] = key
    THEN d.items[CHOOSE i \in 1..Len(d.keys) : d.keys[i] = key]
    ELSE default

(* json.dumps with the default separators ", " and ": ". *)
RECURSIVE Dumps(_)
RECURSIVE DumpsItems(_, _)
RECURSIVE DumpsMembers(_, _, _)
DumpsItems(xs, i) ==
    IF i > Len(xs) THEN ""
    ELSE (IF i > 1 THEN ", " ELSE "") \o Dumps(xs[i]) \o DumpsItems(xs, i + 1)
DumpsMembers(ks, xs, i) ==
    IF i > Len(ks) THEN ""
    ELSE (IF i > 1 THEN ", " ELSE "") \o "\"" \o ks[i] \o "\": " \o Dumps(xs[i])
         \o DumpsMembers(ks, xs, i + 1)
Dumps(v) ==
    CASE v.t = "null" -> "null"
      [] v.t = "num"  -> ToString(v.n)
      [] v.t = "str"  -> "\"" \o v.s \o "\""
      [] v.t = "list" -> "[" \o DumpsItems(v.items, 1) \o "]"
      [] v.t = "obj"  -> "{" \o DumpsMembers(v.keys, v.items, 1) \o "}"

(* str(x) as an f-string renders it. *)
PyStr(v) ==
    CASE v.t = "null" -> "None"
      [] v.t = "num" -> ToString(v.n)
      [] v.t = "str" -> v.s

StartsWith(s, p) == Len(s) >= Len(p) /\ SubSeq(s, 1, Len(p)) = p

-----------------------------------------------------------------------------
(* The library builds the program can run on.                              *)
(*   json : the class response.json() raises on a body that is not JSON:   *)
(*          "requests" - requests.exceptions.JSONDecodeError, a subclass   *)
(*                       of RequestException and of json.JSONDecodeError;  *)
(*          "json"     - json.JSONDecodeError (older requests);            *)
(*          "simplejson" - simplejson's error, a plain ValueError.         *)
(*   silent_mime : request.get_json() answers None for a body that is not  *)
(*          declared JSON (older Flask) instead of raising 415.            *)

Libs == [json : {"requests", "json", "simplejson"}, silent_mime : BOOLEAN]

-----------------------------------------------------------------------------
(* The tool: get_farm_data_by_device *)

DeviceIds == 0..MaxDeviceId

Reading1 == JObj(<<"temp", "timestamp">>, <<JNum(21), JStr("2025-10-08 14:24:13")>>)
Reading2 == JObj(<<"temp", "timestamp">>, <<JNum(19), JStr("2025-10-08 13:24:13")>>)

(* JSON documents the sensor API can answer with. *)
SensorObjects ==
    { JObj(<<>>, <<>>),
      JObj(<<"device">>, <<JNum(2)>>),
      JObj(<<"readings">>, <<JList(<<>>)>>),
      JObj(<<"readings">>, <<JList(<<Reading1>>)>>),
      JObj(<<"readings">>, <<JList(<<Reading1, Reading2>>)>>),
      JObj(<<"readings">>, <<JList(<<Reading2, Reading1>>)>>),
      JObj(<<"readings">>, <<JList(<<JNum(0), Reading1>>)>>),
      JObj(<<"readings">>, <<JNull>>),
      JObj(<<"readings">>, <<JStr("none")>>),
      JObj(<<"readings">>, <<Reading1>>) }

SensorDocuments ==
    SensorObjects \cup { JList(<<>>), JList(<<Reading1>>), JStr("ok"), JNum(5), JNull }

StatusCodes == {200, 304, 404, 500}

(* Outcome of requests.get: a network failure, or a response. *)
HttpOutcomes ==
    { [net |-> e, status |-> 0, valid |-> FALSE, value |-> JNull] :
        e \in {"ConnectionError", "Timeout"} }
    \cup
    { [net |-> "ok", status |-> c, valid |-> FALSE, value |-> JNull] : c \in StatusCodes }
    \cup
    { [net |-> "ok", status |-> c, valid |-> TRUE, value |-> d] :
        c \in StatusCodes, d \in SensorDocuments }

(* A status check that treats only server errors as errors. *)
raise_for_status_ServerOnly(status) == status \in 500..599

(* response.raise_for_status(): raises HTTPError for 4xx and 5xx. *)
raise_for_status(status) == status \in 400..599

(* The class response.json() raises on a body that is not JSON. *)
DecodeError(lib) ==
    CASE lib.json = "requests"   -> "requests.JSONDecodeError"
      [] lib.json = "json"       -> "json.JSONDecodeError"
      [] lib.json = "simplejson" -> "simplejson.JSONDecodeError"

(* except requests.exceptions.RequestException *)
IsRequestException(exc) ==
    exc \in {"ConnectionError", "Timeout", "HTTPError", "requests.JSONDecodeError"}

(* except json.JSONDecodeError *)
IsJSONDecodeError(exc) ==
    exc \in {"json.JSONDecodeError", "requests.JSONDecodeError"}

(* str(e) of the exception caught. *)
ExcText(exc, http) ==
    CASE exc = "ConnectionError" -> "Connection refused"
      [] exc = "Timeout" -> "Read timed out"
      [] exc = "HTTPError" ->
           ToString(http.status) \o
             (IF http.status < 500 THEN " Client Error" ELSE " Server Error")
      [] OTHER -> "Expecting value: line 1 column 1 (char 0)"

NoReadings(device_id) ==
    JObj(<<"status">>, <<JStr("No readings available for device " \o ToString(device_id))>>)

(* An extraction that takes the last element of the list. *)
ExtractReading_Last(data, device_id) ==
    LET readings_list == DictGet(data, "readings", JList(<<>>))
    IN  IF readings_list.t = "list" /\ Truthy(readings_list)
        THEN Dumps(readings_list.items[Len(readings_list.items)])
        ELSE Dumps(NoReadings(device_id))

(* Lines 50-56: the string returned for a parsed object `data`. *)
ExtractReading(data, device_id) ==
    LET readings_list == DictGet(data, "readings", JList(<<>>))
    IN  IF readings_list.t = "list" /\ Truthy(readings_list)
        THEN Dumps(readings_list.items[1])
        ELSE Dumps(NoReadings(device_id))

(* The try block: exc is the exception it ends with ("" when it returns). *)
TryBlock(device_id, http, lib) ==
    IF http.net # "ok" THEN [exc |-> http.net, ret |-> ""]
    ELSE IF raise_for_status(http.status) THEN [exc |-> "HTTPError", ret |-> ""]
    ELSE IF ~http.valid THEN [exc |-> DecodeError(lib), ret |-> ""]
    ELSE IF http.value.t # "obj" THEN [exc |-> "AttributeError", ret |-> ""]
    ELSE [exc |-> "", ret |-> ExtractReading(http.value, device_id)]

ConnectPrefix == "Error: Could not connect to the farm API."
InvalidData == "Error: Received invalid data from the farm API."

(* The whole tool: raised is the exception that leaves it ("" when it      *)
(* returns), ret the string returned, gets the outbound GETs issued.       *)
get_farm_data_by_device(device_id, http, lib) ==
    LET r == TryBlock(device_id, http, lib)
    IN  IF r.exc = "" THEN [raised |-> "", ret |-> r.ret, gets |-> 1]
        ELSE IF IsRequestException(r.exc)
        THEN [raised |-> "", ret |-> ConnectPrefix \o " " \o ExcText(r.exc, http), gets |-> 1]
        ELSE IF IsJSONDecodeError(r.exc)
        THEN [raised |-> "", ret |-> InvalidData, gets |-> 1]
        ELSE [raised |-> r.exc, ret |-> "", gets |-> 1]

ToolIdle ==
    [pc |-> "idle", device_id |-> 0,
     http |-> [net |-> "ok", status |-> 0, valid |-> FALSE, value |-> JNull],
     raised |-> "", ret |-> "", gets |-> 0]

-----------------------------------------------------------------------------
(* State after the module is imported up to line 112. *)

None == "None"

(* Lines 70-110, abbreviated to its first sentence. *)
SYSTEM_PERSONA ==
    "You are KeSAN, an AI farm assistant for Grid Sphere, specializing in Apple Orchards."

(* A field of the JSON object posted to /ask that is not there. *)
Absent == [t |-> "absent", n |-> 0, s |-> "", keys |-> <<>>, items |-> <<>>]

QuestionFields == {Absent, JNull, JStr(""), JStr("Is it raining?")}
DeviceFields == {Absent, JNull, JStr("")} \cup {JNum(d) : d \in DeviceIds}

AskObject(q, d) ==
    JObj((IF q = Absent THEN <<>> ELSE <<"question">>) \o
         (IF d = Absent THEN <<>> ELSE <<"deviceId">>),
         (IF q = Absent THEN <<>> ELSE <<q>>) \o
         (IF d = Absent THEN <<>> ELSE <<d>>))

(* Bodies of a POST /ask: JSON documents, a body that is not JSON, and a   *)
(* body that is not declared as JSON.                                      *)
AskBodies ==
    { [kind |-> "json", value |-> AskObject(q, d)] :
        q \in QuestionFields, d \in DeviceFields }
    \cup
    { [kind |-> "json", value |-> v] : v \in {JNull, JList(<<>>), JStr("hello")} }
    \cup
    { [kind |-> k, value |-> JNull] : k \in {"malformed", "nomime"} }

(* What AgentExecutor.invoke can return, and the exceptions it can raise. *)
AgentResponses ==
    { JObj(<<"input", "output">>, <<JStr("prompt"), JStr("It is 21 degrees.")>>),
      JObj(<<"input">>, <<JStr("prompt")>>) }
AgentErrors == {"RateLimitError: quota exceeded for key sk-1"}

IdleRequest ==
    [pc |-> "idle", body |-> [kind |-> "json", value |-> JNull], prompt |-> <<>>,
     invokes |-> 0, gets |-> 0, outcome |-> "", logged |-> "",
     status |-> 0, kind |-> "", field |-> "", text |-> "", propagated |-> ""]

Requests == 1..MaxRequests

Times == {"Monday, 03 November 2025 at 01:30 PM", "Tuesday, 04 November 2025 at 09:05 AM"}

Init ==
    /\ agent_executor = None
    /\ started = FALSE
    /\ libs \in Libs
    /\ now \in Times
    /\ reqs = [r \in Requests |-> IdleRequest]
    /\ tool = ToolIdle

-----------------------------------------------------------------------------
(* Startup: lines 112-130. *)

Startup(ok) ==
    /\ ~started
    /\ started' = TRUE
    /\ agent_executor' = IF ok THEN "AgentExecutor" ELSE None
    /\ UNCHANGED <<libs, now, reqs, tool>>

-----------------------------------------------------------------------------
(* The front door: ask_agent *)

(* A handler without the availability check. *)
AgentUnavailable_Never(executor) == FALSE

(* `if not agent_executor` *)
AgentUnavailable(executor) == executor = None

(* request.get_json(): exc is the HTTPException it raises ("" when it      *)
(* returns), code that exception's status, value the parsed document.      *)
get_json(body, lib) ==
    CASE body.kind = "malformed" -> [exc |-> "BadRequest", code |-> 400, value |-> JNull]
      [] body.kind = "nomime" ->
           IF lib.silent_mime THEN [exc |-> "", code |-> 0, value |-> JNull]
           ELSE [exc |-> "UnsupportedMediaType", code |-> 415, value |-> JNull]
      [] body.kind = "json" -> [exc |-> "", code |-> 0, value |-> body.value]

(* A validation that tests the fields against None only. *)
MissingFields_NoneOnly(user_question, device_id) ==
    user_question = JNull \/ device_id = JNull

(* `if not user_question or not device_id` *)
MissingFields(user_question, device_id) == ~Truthy(user_question) \/ ~Truthy(device_id)

(* Lines 150-157: the parts of the f-string, in order. *)
ComposePrompt(current_time, device_id, user_question) ==
    << SYSTEM_PERSONA,
       "Current time for your reference: ", current_time,
       "The user is asking about device ID: ", PyStr(device_id),
       "User's question: \"", PyStr(user_question), "\"" >>

(* return jsonify({field: text}), status *)
Respond(rq, status, field, text) ==
    [rq EXCEPT !.pc = "done", !.status = status, !.kind = "json",
               !.field = field, !.text = text]

(* An exception that leaves the handler: the framework answers for it. *)
Propagate(rq, exc, status) ==
    [rq EXCEPT !.pc = "done", !.status = status, !.kind = "html",
               !.field = "", !.text = "<!doctype html>", !.propagated = exc]

InternalError == "An internal error occurred while processing your question."

(* Lines 135-160: the handler up to the call of agent_executor.invoke. *)
AskAgentEntry(rq, executor, lib, current_time) ==
    IF AgentUnavailable(executor)
    THEN Respond(rq, 503, "error", "AI agent is not available.")
    ELSE LET gj == get_json(rq.body, lib)
         IN  IF gj.exc # "" THEN Propagate(rq, gj.exc, gj.code)
             ELSE IF gj.value.t # "obj" THEN Propagate(rq, "AttributeError", 500)
             ELSE LET user_question == DictGet(gj.value, "question", JNull)
                      device_id == DictGet(gj.value, "deviceId", JNull)
                  IN  IF MissingFields(user_question, device_id)
                      THEN Respond(rq, 400, "error",
                                   "A question and deviceId must be provided.")
                      ELSE [rq EXCEPT !.pc = "invoking",
                                      !.prompt = ComposePrompt(current_time, device_id,
                                                               user_question),
                                      !.invokes = @ + 1]

Ask(r, body) ==
    /\ started
    /\ reqs[r].pc = "idle"
    /\ reqs' = [reqs EXCEPT ![r] =
                  AskAgentEntry([@ EXCEPT !.body = body], agent_executor, libs, now)]
    /\ UNCHANGED <<agent_executor, started, libs, now, tool>>

(* The reasoning loop calls the tool; an exception leaving the tool leaves *)
(* agent_executor.invoke and is caught at line 163.                        *)
ToolCall(r, device_id, http) ==
    LET res == get_farm_data_by_device(device_id, http, libs)
    IN  /\ reqs[r].pc = "invoking"
        /\ reqs[r].gets < MaxToolCalls
        /\ reqs' = [reqs EXCEPT ![r] =
                      IF res.raised = ""
                      THEN [@ EXCEPT !.gets = @ + res.gets]
                      ELSE Respond([@ EXCEPT !.gets = @ + res.gets,
                                             !.outcome = "raised",
                                             !.logged = res.raised],
                                   500, "error", InternalError)]
        /\ UNCHANGED <<agent_executor, started, libs, now, tool>>

(* Lines 160-162: invoke returns. *)
InvokeReturns(r, response) ==
    LET final_answer == DictGet(response, "output", JStr("Sorry, I couldn't find an answer."))
    IN  /\ reqs[r].pc = "invoking"
        /\ reqs' = [reqs EXCEPT ![r] =
                      Respond([@ EXCEPT !.outcome = "returned"],
                              200, "answer", final_answer.s)]
        /\ UNCHANGED <<agent_executor, started, libs, now, tool>>

(* A handler that marks the agent unavailable once invoke has raised. *)
InvokeRaises_DisablesAgent(r, e) ==
    /\ reqs[r].pc = "invoking"
    /\ reqs' = [reqs EXCEPT ![r] =
                  Respond([@ EXCEPT !.outcome = "raised", !.logged = e],
                          500, "error", "An internal error occurred while processing your question.")]
    /\ agent_executor' = None
    /\ UNCHANGED <<started, libs, now, tool>>

(* Lines 163-165: invoke raises. *)
InvokeRaises(r, e) ==
    /\ reqs[r].pc = "invoking"
    /\ reqs' = [reqs EXCEPT ![r] =
                  Respond([@ EXCEPT !.outcome = "raised", !.logged = e],
                          500, "error", InternalError)]
    /\ UNCHANGED <<agent_executor, started, libs, now, tool>>

(* No other request has arrived: r is the only request the process serves. *)
Alone(r) == \A o \in Requests \ {r} : reqs[o].pc = "idle"

(* One request, with any body, from its arrival to its response. *)
Next ==
    \/ \E ok \in BOOLEAN : Startup(ok)
    \/ \E r \in Requests, b \in AskBodies : Alone(r) /\ Ask(r, b)
    \/ \E r \in Requests, d \in DeviceIds, h \in HttpOutcomes : ToolCall(r, d, h)
    \/ \E r \in Requests, a \in AgentResponses : InvokeReturns(r, a)
    \/ \E r \in Requests, e \in AgentErrors : InvokeRaises(r, e)

Spec == Init /\ [][Next]_vars

(* Requests handled by concurrent workers: every request may arrive while  *)
(* others are in flight. Bodies and sensor outcomes are one of each kind.  *)
ConcBodies ==
    { [kind |-> "json", value |-> AskObject(JStr("Is it raining?"), JNum(1))],
      [kind |-> "json", value |-> AskObject(JStr("Is it raining?"), Absent)],
      [kind |-> "json", value |-> JNull],
      [kind |-> "nomime", value |-> JNull] }

ConcOutcomes ==
    { [net |-> "ConnectionError", status |-> 0, valid |-> FALSE, value |-> JNull],
      [net |-> "ok", status |-> 200, valid |-> TRUE,
       value |-> JObj(<<"readings">>, <<JList(<<Reading1>>)>>)],
      [net |-> "ok", status |-> 200, valid |-> TRUE, value |-> JList(<<Reading1>>)] }

NextConc ==
    \/ \E ok \in BOOLEAN : Startup(ok)
    \/ \E r \in Requests, b \in ConcBodies : Ask(r, b)
    \/ \E r \in Requests, d \in DeviceIds, h \in ConcOutcomes : ToolCall(r, d, h)
    \/ \E r \in Requests, a \in AgentResponses : InvokeReturns(r, a)
    \/ \E r \in Requests, e \in AgentErrors : InvokeRaises(r, e)

SpecConc == Init /\ [][NextConc]_vars

-----------------------------------------------------------------------------
(* One invocation of the tool on its own. *)
CallTool(device_id, http) ==
    LET res == get_farm_data_by_device(device_id, http, libs)
    IN  /\ tool.pc = "idle"
        /\ tool' = [pc |-> IF res.raised = "" THEN "returned" ELSE "raised",
                    device_id |-> device_id, http |-> http,
                    raised |-> res.raised, ret |-> res.ret, gets |-> res.gets]
        /\ UNCHANGED <<agent_executor, started, libs, now, reqs>>

NextTool == \E d \in DeviceIds, h \in HttpOutcomes : CallTool(d, h)

SpecTool == Init /\ [][NextTool]_vars

-----------------------------------------------------------------------------
(* Properties of the front door *)

Initialized == agent_executor # None

Handled(r) == reqs[r].pc # "idle"
Done(r) == reqs[r].pc = "done"

IsObjectBody(b) == b.kind = "json" /\ b.value.t = "obj"

(* The field is absent, null or empty. *)
Lacks(obj, key) ==
    DictGet(obj, key, Absent) \in {Absent, JNull, JStr(""), JList(<<>>), JObj(<<>>, <<>>)}

InPrompt(r, part) == \E i \in 1..Len(reqs[r].prompt) : reqs[r].prompt[i] = part

(* C1: with the orchestrator initialized, a request whose JSON object      *)
(* lacks `question` or `deviceId` (absent, null or empty, the empty object *)
(* included) is answered 400 with an error message, and the orchestrator   *)
(* is never invoked for it.                                                *)
C1_MissingFieldsGet400 ==
    \A r \in Requests :
        (/\ Initialized
         /\ Handled(r)
         /\ IsObjectBody(reqs[r].body)
         /\ (Lacks(reqs[r].body.value, "question") \/ Lacks(reqs[r].body.value, "deviceId")))
        => /\ Done(r)
           /\ reqs[r].status = 400
           /\ reqs[r].kind = "json" /\ reqs[r].field = "error" /\ reqs[r].text # ""
           /\ reqs[r].invokes = 0
           /\ reqs[r].outcome = ""

C1_Witness ==
    \E r \in Requests :
        /\ Initialized /\ Done(r)
        /\ reqs[r].body = [kind |-> "json", value |-> AskObject(JStr(""), JNum(1))]
        /\ reqs[r].status = 400

(* C2: when the orchestrator failed to initialize the service is still up, *)
(* and every request, whatever its body, is answered 503 by the handler    *)
(* itself without invoking the orchestrator or the fetcher.                *)
C2_UnavailableGets503 ==
    \A r \in Requests :
        (~Initialized /\ Handled(r))
        => /\ started
           /\ Done(r)
           /\ reqs[r].status = 503
           /\ reqs[r].kind = "json" /\ reqs[r].field = "error"
           /\ reqs[r].propagated = ""
           /\ reqs[r].invokes = 0
           /\ reqs[r].gets = 0

C2_Witness ==
    /\ started /\ ~Initialized
    /\ \E r \in Requests :
        /\ Done(r) /\ reqs[r].status = 503
        /\ reqs[r].body = [kind |-> "json",
                           value |-> AskObject(JStr("Is it raining?"), JNum(1))]

(* C7: with the orchestrator initialized, a request whose question is a    *)
(* non-empty string and whose deviceId is an integer invokes the           *)
(* orchestrator exactly once with a prompt holding the persona, the time,  *)
(* the device id and the verbatim question, and is answered 200 with the   *)
(* answer when the orchestrator returns.                                   *)
C7_ValidRequestIsDelegated ==
    \A r \in Requests :
        LET q == DictGet(reqs[r].body.value, "question", Absent)
            d == DictGet(reqs[r].body.value, "deviceId", Absent)
        IN  (/\ Initialized
             /\ Handled(r)
             /\ IsObjectBody(reqs[r].body)
             /\ q.t = "str" /\ q.s # ""
             /\ d.t = "num")
            => /\ reqs[r].invokes = 1
               /\ InPrompt(r, SYSTEM_PERSONA)
               /\ InPrompt(r, now)
               /\ InPrompt(r, ToString(d.n))
               /\ InPrompt(r, q.s)
               /\ reqs[r].outcome = "returned"
                    => /\ reqs[r].status = 200
                       /\ reqs[r].kind = "json" /\ reqs[r].field = "answer"

(* C8: an exception raised while handling a request after the availability *)
(* check is answered 500 with the fixed error body, its text is not in the *)
(* response, and it does not leave the handler.                            *)
C8_ExceptionsBecomeFixed500 ==
    \A r \in Requests :
        (/\ Initialized
         /\ Done(r)
         /\ (reqs[r].outcome = "raised" \/ reqs[r].propagated # ""))
        => /\ reqs[r].propagated = ""
           /\ reqs[r].status = 500
           /\ reqs[r].kind = "json" /\ reqs[r].field = "error"
           /\ reqs[r].text = InternalError
           /\ reqs[r].text # reqs[r].logged

(* C9: every request is answered with 200, 400, 503 or 500 and a JSON body *)
(* that has `answer` exactly when the status is 200 and `error` exactly    *)
(* when the status is not 2xx.                                             *)
C9_ResponseShape ==
    \A r \in Requests :
        Done(r)
        => /\ reqs[r].status \in {200, 400, 503, 500}
           /\ reqs[r].kind = "json"
           /\ (reqs[r].field = "answer") <=> (reqs[r].status = 200)
           /\ (reqs[r].field = "error") <=> (reqs[r].status \notin 200..299)

(* C10: after startup no step changes agent_executor or the libraries; two *)
(* answered requests with the same body and the same orchestrator outcome  *)
(* have the same status class; once a 503 has been answered every request  *)
(* that arrives later is answered 503.                                     *)
StatusClass(r) == reqs[r].status \div 100

SameStatusClass ==
    \A r1, r2 \in Requests :
        (/\ Done(r1) /\ Done(r2)
         /\ reqs[r1].body = reqs[r2].body
         /\ reqs[r1].outcome = reqs[r2].outcome)
        => StatusClass(r1) = StatusClass(r2)

Seen503 == \E r \in Requests : Done(r) /\ reqs[r].status = 503

C10_Stateless ==
    /\ []SameStatusClass
    /\ [][started => /\ agent_executor' = agent_executor
                     /\ libs' = libs
                     /\ started']_vars
    /\ [][Seen503 => \A r \in Requests :
                        (reqs[r].pc = "idle" /\ reqs'[r].pc # "idle")
                        => reqs'[r].status = 503]_vars

C10_Witness ==
    \E r1, r2 \in Requests :
        /\ r1 # r2
        /\ Done(r1) /\ Done(r2)
        /\ reqs[r1].body = reqs[r2].body
        /\ reqs[r1].outcome = "raised" /\ reqs[r2].outcome = "raised"
        /\ reqs[r1].status = 500 /\ reqs[r2].status = 500

-----------------------------------------------------------------------------
(* Properties of the tool *)

Called == tool.pc # "idle"

Is2xx(http) == http.net = "ok" /\ http.status \in 200..299

C4_InvalidBodyString ==
    (Called /\ Is2xx(tool.http) /\ ~tool.http.valid)
    => (tool.raised = "" /\ tool.ret = InvalidData)

(* C5: for a 2xx answer whose body is a JSON object the tool returns the   *)
(* serialization of the first element of `readings` when that is a         *)
(* non-empty list, and of the no-readings status object when `readings`    *)
(* is an empty list or absent.                                             *)
C5_FirstReadingOrStatus ==
    (Called /\ Is2xx(tool.http) /\ tool.http.valid /\ tool.http.value.t = "obj")
    => LET readings == DictGet(tool.http.value, "readings", Absent)
       IN  /\ (readings.t = "list" /\ Len(readings.items) > 0)
                => /\ tool.pc = "returned"
                   /\ tool.ret = Dumps(Head(readings.items))
                   /\ Head(readings.items) = Reading1
                        => tool.ret = "{\"temp\": 21, \"timestamp\": \"2025-10-08 14:24:13\"}"
           /\ (readings = Absent \/ readings = JList(<<>>))
                => /\ tool.pc = "returned"
                   /\ tool.ret = "{\"status\": \"No readings available for device "
                                   \o ToString(tool.device_id) \o "\"}"

C5_Witness ==
    /\ tool.pc = "returned"
    /\ Is2xx(tool.http)
    /\ tool.http.value = JObj(<<"readings">>, <<JList(<<Reading1, Reading2>>)>>)
    /\ tool.ret = "{\"temp\": 21, \"timestamp\": \"2025-10-08 14:24:13\"}"

ConnectError ==
    /\ tool.pc = "returned" /\ tool.raised = ""
    /\ StartsWith(tool.ret, ConnectPrefix)
    /\ Len(tool.ret) > Len(ConnectPrefix) + 1
    /\ tool.gets = 1

(* C6 as stated: a network failure or any non-2xx status makes the tool    *)
(* return the could-not-connect string with the cause, without raising     *)
(* and with exactly one GET.                                               *)
C6_Non2xxIsConnectError ==
    (Called /\ ~Is2xx(tool.http)) => ConnectError

(* C6, amended: a network failure or a 4xx or 5xx status makes the tool    *)
(* return the could-not-connect string with the cause, without raising     *)
(* and with exactly one GET.                                               *)
C6_ErrorStatusIsConnectError ==
    (Called /\ (tool.http.net # "ok" \/ tool.http.status \in 400..599)) => ConnectError

C6_Witness ==
    /\ Called
    /\ tool.http.net = "ok" /\ tool.http.status = 404 /\ tool.http.valid
    /\ tool.ret = ConnectPrefix \o " 404 Client Error"

====
